---- MODULE Spec2Model ----
(***************************************************************************)
(* Chat client of the LinkedIn agent frontend: the ChatProvider state      *)
(* machine of App.jsx (REST + WebSocket transports), the ChatInput and     *)
(* Sidebar entry points, and the transport functions of services/api,      *)
(* its axios client with the token interceptors included; the REST-only    *)
(* chat screens (ChatPage, ChatInterface.jsx), the GeneratePost page, the  *)
(* LinkedInPost form and the axios client of api/config.                   *)
(*                                                                         *)
(* Text is a sequence of one-character strings, so that concatenation of   *)
(* streamed chunks is sequence concatenation.  A field that is absent in a *)
(* JavaScript object and a field holding "" are both falsy; the handlers   *)
(* only test truthiness of such fields, so both are the empty sequence.    *)
(***************************************************************************)
EXTENDS Integers, Sequences, FiniteSets, TLC

\* ------------------------------------------------------------------ bounds
\* number of steps (user actions, replies, frames, socket events) explored
\* from the mounted provider
MaxSteps == 7

\* number of steps explored from the mounted GeneratePost page
MaxPageSteps == 10

\* ------------------------------------------------------------- input sets
\* texts typed into ChatInput: one blank, one real
InputTexts == { <<" ">>, <<"m">> }
\* Sidebar.topicSuggestions, one representative
TopicTexts == { <<"t">> }
\* data.content chunks (the empty chunk is falsy)
FragTexts == { <<>>, <<"a">>, <<"b">> }
\* data.error values that are truthy
ErrTexts == { <<"e">> }
\* post_content values (the empty one is falsy)
PostTexts == { <<>>, <<"p">> }
\* response.message of a REST reply
ReplyTexts == { <<"r">> }

Truthy(s) == s # <<>>

\* String.prototype.trim on a text
RECURSIVE TrimLeft(_)
TrimLeft(s) == IF s # <<>> /\ Head(s) = " " THEN TrimLeft(Tail(s)) ELSE s

RECURSIVE TrimRight(_)
TrimRight(s) ==
    IF s # <<>> /\ s[Len(s)] = " " THEN TrimRight(SubSeq(s, 1, Len(s) - 1)) ELSE s

Trim(s) == TrimRight(TrimLeft(s))

\* --------------------------------------------------------------- wire data
\* a parsed stream frame; absent fields are falsy
NoData == [error |-> <<>>, type |-> "", should_post |-> FALSE,
           post_content |-> <<>>, content |-> <<>>]

FragmentData(t) == [NoData EXCEPT !.content = t]

CompleteData(sp, pc) ==
    [NoData EXCEPT !.type = "complete", !.should_post = sp, !.post_content = pc]

ErrorData(e) == [NoData EXCEPT !.error = e]

\* raw frames a socket can deliver: JSON texts of the event shapes, a JSON
\* text carrying both an error and a chunk, one carrying both the complete
\* type and a chunk, and text that is not JSON
RawFrames ==
    { [json |-> TRUE, data |-> FragmentData(t)] : t \in FragTexts }
      \cup { [json |-> TRUE, data |-> CompleteData(sp, pc)] :
                 sp \in BOOLEAN, pc \in PostTexts }
      \cup { [json |-> TRUE, data |-> ErrorData(e)] : e \in ErrTexts }
      \cup { [json |-> TRUE, data |-> [ErrorData(e) EXCEPT !.content = <<"a">>]] :
                 e \in ErrTexts }
      \cup { [json |-> TRUE,
               data |-> [CompleteData(FALSE, <<>>) EXCEPT !.content = <<"a">>]] }
      \cup { [json |-> FALSE, data |-> NoData] }

\* JSON.parse(event.data): throws on text that is not JSON
JSONparse(raw) == [ok |-> raw.json, data |-> raw.data]

\* replies of POST /chat that fetchChatResponse returns
Responses ==
    [message : ReplyTexts, should_post : BOOLEAN, post_content : PostTexts]

\* tokens a login can leave in localStorage
TokenTexts == { <<"k">> }

\* the greeting ChatInterface.jsx starts with: a text of more than 50
\* characters
Greeting == [i \in 1..51 |-> "g"]

\* texts typed into the input of a REST-only chat screen: one blank, one
\* with a space to trim
ScreenTexts == { <<" ">>, <<" ", "m">> }

\* what the await of api.post in sendMessage of services/api yields: response
\* data, a response without data, or a rejection carrying a message
SendOutcomes ==
    { [kind |-> "data", status |-> st, message |-> m, error |-> e] :
          st \in {"success", "error"}, m \in {<<>>, <<"r">>}, e \in {<<>>, <<"e">>} }
      \cup { [kind |-> "nodata", status |-> "", message |-> <<>>, error |-> <<>>] }
      \cup { [kind |-> "throw", status |-> "", message |-> <<>>, error |-> e] :
                 e \in {<<>>, <<"e">>} }

\* what fetchChatResponse of api/api yields: data.data.message, or an Error
FetchOutcomes ==
    { [ok |-> TRUE, text |-> m] : m \in {<<>>, <<"r">>} }
      \cup { [ok |-> FALSE, text |-> <<"e">>] }

\* ids of the posts the server generates
PostIds == { 1, 2 }

\* lists of posts generatePosts resolves with
GeneratedLists == { << 1, 2 >> }

\* drafts typed into the textarea of LinkedInPost
DraftTexts == { <<>>, <<"c">> }

\* how the request of handlePost ends: a 2xx response, a non-2xx response
\* with needs_auth, one with or without an error text, or a rejected fetch
\* or json() call
PostOutcomes ==
    { [kind |-> "ok", error |-> <<>>], [kind |-> "needs_auth", error |-> <<>>],
      [kind |-> "error", error |-> <<>>], [kind |-> "error", error |-> <<"e">>],
      [kind |-> "throw", error |-> <<"n">>] }

\* lists getScheduledPosts resolves with
ScheduledLists == { <<>>, << 1 >> }

\* HTTP status of a settled axios request; 0 is a request without response
OkStatuses == { 200 }

ErrorStatuses == { 0, 401, 500 }

VARIABLES
    messages,            \* useState([]) : the turn list
    isTyping,            \* useState(false)
    currentPostContent,  \* useState(null) ; <<>> is null
    showPostPreview,     \* useState(false)
    websocket,           \* useState(null) ; 0 is null, else index in socks
    useWebsocket,        \* useState(true)
    socks,               \* readyState of every socket created so far
    wsSent,              \* frames written with websocket.send, in order
    restCalls,           \* fetchChatResponse calls issued, in order
    restPending,         \* indices of restCalls not yet settled
    nEvents,             \* frames delivered by sockets so far
    wsAwaiting,          \* socket writes not yet answered by complete/error
    inProgress,          \* indices of turns being streamed
    exch,                \* what happened since the last user turn
    demoted,             \* a send fell back from the socket to REST
    restTurns,           \* indices of the turns appended from a REST reply
    httpReqs,            \* HTTP requests issued by fetchChatResponse, in order
    mounted,             \* the ChatProvider is mounted
    token,               \* localStorage item 'token' ; <<>> is no item
    location,            \* window.location.href
    axiosReqs,           \* request configs the axios client sent, in order
    axiosPending,        \* indices of axiosReqs not yet settled
    evicted,             \* a 401 removed the token and none was stored since
    cpMessages,          \* ChatPage: useState([]) turn list
    cpIsLoading,         \* ChatPage: useState(false)
    cpInput,             \* ChatInterface.tsx: useState('') input text
    cpCalls,             \* ChatPage: handleSendMessage invocations
    ciMessages,          \* ChatInterface.jsx: useState([greeting]) turn list
    ciInput,             \* ChatInterface.jsx: useState('')
    ciIsLoading,         \* ChatInterface.jsx: useState(false)
    ciError,             \* ChatInterface.jsx: useState(null) ; <<>> is null
    ciCalls,             \* ChatInterface.jsx: handler invocations
    ciReqs,              \* bodies posted by fetchChatResponse of api/api
    prompt,              \* GeneratePost: useState('')
    posts,               \* GeneratePost: useState([]) ; ids of the posts
    scheduledPosts,      \* GeneratePost: useState([]) ; ids
    loading,             \* GeneratePost: useState(false)
    error,               \* GeneratePost: useState(null) ; <<>> is null
    isLinkedInConnected, \* GeneratePost: useState(false)
    selectedPost,        \* GeneratePost: useState(null) ; 0 is null
    scheduledTime,       \* GeneratePost: useState(null) ; FALSE is null
    scheduleDialogOpen,  \* GeneratePost: useState(false)
    postingStatus,       \* GeneratePost: useState({}) ; "none" is no key
    gpCalls,             \* GeneratePost: handler invocations and requests
    lpContent,           \* LinkedInPost: useState('') draft
    lpLoading,           \* LinkedInPost: useState(false)
    lpError,             \* LinkedInPost: useState(null) ; <<>> is null
    lpSuccess,           \* LinkedInPost: useState(null) ; <<>> is null
    lpIsAuthenticated,   \* LinkedInPost: useState(false)
    lpCalls,             \* LinkedInPost: handlePost invocations
    cfCalls,             \* api/config client: requests and their probes
    lastOp,              \* the operation that produced this state
    steps                \* steps taken so far

vars == << messages, isTyping, currentPostContent, showPostPreview, websocket,
           useWebsocket, socks, wsSent, restCalls, restPending, nEvents,
           wsAwaiting, inProgress, exch, demoted, restTurns, httpReqs, mounted,
           token, location, axiosReqs, axiosPending, evicted, cpMessages,
           cpIsLoading, cpInput, cpCalls, ciMessages, ciInput, ciIsLoading,
           ciError, ciCalls, ciReqs, prompt, posts, scheduledPosts, loading, error,
           isLinkedInConnected,
           selectedPost, scheduledTime, scheduleDialogOpen, postingStatus,
           gpCalls, lpContent, lpLoading, lpError, lpSuccess, lpIsAuthenticated,
           lpCalls, cfCalls, lastOp, steps >>

\* state of the ChatProvider and its transports
chat == << messages, isTyping, currentPostContent, showPostPreview, websocket,
           useWebsocket, socks, wsSent, restCalls, restPending, nEvents,
           wsAwaiting, inProgress, exch, demoted, restTurns, httpReqs,
           mounted >>

\* state of the axios client
axios == << token, location, axiosReqs, axiosPending, evicted >>

\* state of ChatPage and the ChatInterface it renders
chatPage == << cpMessages, cpIsLoading, cpInput, cpCalls >>

\* state of the ChatInterface of components/ChatInterface.jsx
chatInterface == << ciMessages, ciInput, ciIsLoading, ciError, ciCalls, ciReqs >>

\* state of the GeneratePost page
generatePost == << prompt, posts, scheduledPosts, loading, error,
                   isLinkedInConnected, selectedPost,
                   scheduledTime, scheduleDialogOpen, postingStatus, gpCalls >>

\* state of the LinkedInPost form
linkedInPost == << lpContent, lpLoading, lpError, lpSuccess, lpIsAuthenticated,
                   lpCalls >>

\* state of the pages outside the ChatProvider
pages == << chatPage, chatInterface, generatePost, linkedInPost, cfCalls >>

provider == << messages, isTyping, currentPostContent, showPostPreview >>

Op(name, text) == [op |-> name, text |-> text, flag |-> FALSE]

UserTurn(text) == [role |-> "user", content |-> text, shouldPost |-> FALSE]

\* readyState of the socket held in the websocket state
ReadyState == IF websocket = 0 THEN "NONE" ELSE socks[websocket]

\* ------------------------------------------------------- modelled functions
\* a chunk put in front of the running content instead of behind it
ApplyFragment_Prepend(prev, content) ==
    LET lastMessageIndex == Len(prev) IN
    IF lastMessageIndex < 1 \/ prev[lastMessageIndex].role # "assistant"
    THEN Append(prev, [role |-> "assistant", content |-> content,
                       shouldPost |-> FALSE])
    ELSE [prev EXCEPT ![lastMessageIndex].content = content \o @]

\* every chunk opens a new assistant turn
ApplyFragment_AlwaysNew(prev, content) ==
    Append(prev, [role |-> "assistant", content |-> content, shouldPost |-> FALSE])

\* the first chunk of a reply returned without the spread of prev
ApplyFragment_DropPrev(prev, content) ==
    LET lastMessageIndex == Len(prev) IN
    IF lastMessageIndex < 1 \/ prev[lastMessageIndex].role # "assistant"
    THEN << [role |-> "assistant", content |-> content, shouldPost |-> FALSE] >>
    ELSE [prev EXCEPT ![lastMessageIndex].content = @ \o content]

\* the setMessages updater of handleWebSocketMessage for a content chunk
ApplyFragment(prev, content) ==
    LET lastMessageIndex == Len(prev) IN
    IF lastMessageIndex < 1 \/ prev[lastMessageIndex].role # "assistant"
    THEN Append(prev, [role |-> "assistant", content |-> content,
                       shouldPost |-> FALSE])
    ELSE [prev EXCEPT ![lastMessageIndex].content = @ \o content]

\* messages.map(msg => ({role, content})) of the rendered turn list
ChatHistory(msgs) ==
    [i \in 1..Len(msgs) |-> [role |-> msgs[i].role, content |-> msgs[i].content]]

\* the body fetchChatResponse of services/api posts
FetchBody(message, chatHistory) ==
    [messages |-> chatHistory \o << [role |-> "user", content |-> message] >>]

\* the object sendMessageWS writes to the socket
WsFrame(message, chatHistory) ==
    [message |-> message, chat_history |-> chatHistory]

\* a socket object counted as connected whatever its readyState
SocketOpen_AnyReadyState == websocket # 0

\* negation of the fallback guard of sendMessageWS
SocketOpen == websocket # 0 /\ ReadyState = "OPEN"

\* transport choice of sendMessage
PreferSocket == useWebsocket /\ websocket # 0

\* --------------------------------------------------------------------- Init
Init ==
    /\ messages = <<>>
    /\ isTyping = FALSE
    /\ currentPostContent = <<>>
    /\ showPostPreview = FALSE
    /\ useWebsocket = TRUE
    /\ socks = << "CONNECTING" >>
    /\ websocket = 1
    /\ wsSent = <<>>
    /\ restCalls = <<>>
    /\ restPending = {}
    /\ nEvents = 0
    /\ wsAwaiting = 0
    /\ inProgress = {}
    /\ exch = [user |-> 0, frags |-> <<>>, clean |-> TRUE, completes |-> 0]
    /\ demoted = FALSE
    /\ restTurns = {}
    /\ httpReqs = <<>>
    /\ mounted = TRUE
    /\ token = <<>>
    /\ location = "/"
    /\ axiosReqs = <<>>
    /\ axiosPending = {}
    /\ evicted = FALSE
    /\ cpMessages = <<>>
    /\ cpIsLoading = FALSE
    /\ cpInput = <<>>
    /\ cpCalls = <<>>
    /\ ciMessages = << [text |-> Greeting, isUser |-> FALSE] >>
    /\ ciInput = <<>>
    /\ ciIsLoading = FALSE
    /\ ciError = <<>>
    /\ ciCalls = <<>>
    /\ ciReqs = <<>>
    /\ prompt = <<>>
    /\ posts = <<>>
    /\ scheduledPosts = <<>>
    /\ loading = FALSE
    /\ error = <<>>
    /\ isLinkedInConnected = FALSE
    /\ selectedPost = 0
    /\ scheduledTime = FALSE
    /\ scheduleDialogOpen = FALSE
    /\ postingStatus = [p \in PostIds |-> "none"]
    /\ gpCalls = << [kind |-> "check", id |-> 0, state |-> "pending"],
                    [kind |-> "load", id |-> 0, state |-> "pending"] >>
    /\ lpContent = <<>>
    /\ lpLoading = TRUE
    /\ lpError = <<>>
    /\ lpSuccess = <<>>
    /\ lpIsAuthenticated = FALSE
    /\ lpCalls = << [kind |-> "verify", content |-> <<>>, state |-> "pending"] >>
    /\ cfCalls = <<>>
    /\ lastOp = Op("init", <<>>)
    /\ steps = 0

\* one more step of the explored run
Tick == steps < MaxSteps /\ steps' = steps + 1

NewExchange == [user |-> Len(messages) + 1, frags |-> <<>>, clean |-> TRUE,
                completes |-> 0]

\* -------------------------------------------------------------------- sends
\* fetchChatResponse of services/api up to its await: one fetch of POST /chat
fetchChatResponse(call, message, chatHistory) ==
    httpReqs' = Append(httpReqs,
                       [call |-> call, body |-> FetchBody(message, chatHistory)])

sendMessageREST(messageText) ==
    /\ isTyping' = TRUE
    /\ messages' = Append(messages, UserTurn(messageText))
    /\ restCalls' = Append(restCalls,
                           [message |-> messageText,
                            chatHistory |-> ChatHistory(messages)])
    /\ fetchChatResponse(Len(restCalls) + 1, messageText, ChatHistory(messages))
    /\ restPending' = restPending \cup { Len(restCalls) + 1 }
    /\ exch' = NewExchange
    /\ lastOp' = Op("sendREST", messageText)
    /\ UNCHANGED << currentPostContent, showPostPreview, websocket, useWebsocket,
                    socks, wsSent, nEvents, wsAwaiting, inProgress, restTurns >>

sendMessageWS(messageText) ==
    IF ~SocketOpen
    THEN /\ sendMessageREST(messageText)
         /\ demoted' = TRUE
    ELSE /\ isTyping' = TRUE
         /\ messages' = Append(messages, UserTurn(messageText))
         /\ wsSent' = Append(wsSent,
                             [sock |-> websocket,
                              frame |-> WsFrame(messageText, ChatHistory(messages))])
         /\ wsAwaiting' = wsAwaiting + 1
         /\ exch' = NewExchange
         /\ lastOp' = Op("sendWS", messageText)
         /\ UNCHANGED << currentPostContent, showPostPreview, websocket,
                         useWebsocket, socks, restCalls, restPending, nEvents,
                         inProgress, demoted, restTurns, httpReqs >>

sendMessage(messageText) ==
    IF PreferSocket
    THEN sendMessageWS(messageText)
    ELSE /\ sendMessageREST(messageText)
         /\ UNCHANGED demoted

\* ChatInput.handleSubmit
ChatInputSubmit ==
    \E message \in InputTexts :
        /\ Tick
        /\ mounted
        /\ UNCHANGED << mounted, axios, pages >>
        /\ Truthy(Trim(message)) /\ ~isTyping
        /\ sendMessage(message)

\* ChatContainer.handleTopicSelect, reached from a Sidebar topic click
SidebarTopicClick ==
    \E topic \in TopicTexts :
        /\ Tick
        /\ mounted
        /\ UNCHANGED << mounted, axios, pages >>
        /\ sendMessage(topic)

\* ------------------------------------------------------------ REST settling
\* a reply offered for posting whenever should_post is set
RestResolve_NoContentGuard ==
    \E i \in restPending, response \in Responses :
        /\ Tick
        /\ mounted
        /\ UNCHANGED << mounted, axios, pages >>
        /\ restPending' = restPending \ {i}
        /\ messages' = Append(messages,
                              [role |-> "assistant", content |-> response.message,
                               shouldPost |-> response.should_post])
        /\ IF response.should_post
           THEN /\ currentPostContent' = response.post_content
                /\ showPostPreview' = TRUE
           ELSE UNCHANGED << currentPostContent, showPostPreview >>
        /\ isTyping' = FALSE
        /\ exch' = [exch EXCEPT !.clean = FALSE]
        /\ restTurns' = restTurns \cup { Len(messages) + 1 }
        /\ lastOp' = Op("restReply", response.message)
        /\ UNCHANGED << websocket, useWebsocket, socks, wsSent, restCalls,
                        nEvents, wsAwaiting, inProgress, demoted, httpReqs >>

\* fetchChatResponse resolved: the continuation of sendMessageREST
RestResolve ==
    \E i \in restPending, response \in Responses :
        /\ Tick
        /\ mounted
        /\ UNCHANGED << mounted, axios, pages >>
        /\ restPending' = restPending \ {i}
        /\ messages' = Append(messages,
                              [role |-> "assistant", content |-> response.message,
                               shouldPost |-> response.should_post])
        /\ IF response.should_post /\ Truthy(response.post_content)
           THEN /\ currentPostContent' = response.post_content
                /\ showPostPreview' = TRUE
           ELSE UNCHANGED << currentPostContent, showPostPreview >>
        /\ isTyping' = FALSE
        /\ exch' = [exch EXCEPT !.clean = FALSE]
        /\ restTurns' = restTurns \cup { Len(messages) + 1 }
        /\ lastOp' = Op("restReply", response.message)
        /\ UNCHANGED << websocket, useWebsocket, socks, wsSent, restCalls,
                        nEvents, wsAwaiting, inProgress, demoted, httpReqs >>

\* a failed fetch answered by a second fetch of the same body
RestReject_Retry ==
    \E i \in restPending, cause \in { <<"n">>, <<"h">> } :
        /\ Tick
        /\ mounted
        /\ UNCHANGED << mounted, axios, pages >>
        /\ httpReqs' = Append(httpReqs,
                              [call |-> i,
                               body |-> FetchBody(restCalls[i].message,
                                                  restCalls[i].chatHistory)])
        /\ lastOp' = Op("restFail", cause)
        /\ UNCHANGED << messages, isTyping, currentPostContent, showPostPreview,
                        websocket, useWebsocket, socks, wsSent, restCalls,
                        restPending, nEvents, wsAwaiting, inProgress, exch, demoted,
                        restTurns >>

\* fetchChatResponse threw (network failure or non-2xx): the catch block
RestReject ==
    \E i \in restPending, cause \in { <<"n">>, <<"h">> } :
        /\ Tick
        /\ mounted
        /\ UNCHANGED << mounted, axios, pages >>
        /\ restPending' = restPending \ {i}
        /\ isTyping' = FALSE
        /\ lastOp' = Op("restFail", cause)
        /\ UNCHANGED << messages, currentPostContent, showPostPreview, websocket,
                        useWebsocket, socks, wsSent, restCalls, nEvents,
                        wsAwaiting, inProgress, exch, demoted, restTurns,
                        httpReqs >>

\* ------------------------------------------------------------ stream events
\* what handleWebSocketMessage does with a parsed frame
FrameKind(data) ==
    IF Truthy(data.error) THEN "error"
    ELSE IF data.type = "complete" THEN "complete"
    ELSE IF Truthy(data.content) THEN "fragment"
    ELSE "ignored"

\* the complete branch offers the post whenever should_post is set
handleWebSocketMessage_NoContentGuard(data) ==
    IF Truthy(data.error)
    THEN /\ isTyping' = FALSE
         /\ UNCHANGED << messages, currentPostContent, showPostPreview >>
    ELSE IF data.type = "complete"
    THEN /\ isTyping' = FALSE
         /\ IF data.should_post
            THEN /\ currentPostContent' = data.post_content
                 /\ showPostPreview' = TRUE
            ELSE UNCHANGED << currentPostContent, showPostPreview >>
         /\ UNCHANGED messages
    ELSE IF Truthy(data.content)
    THEN /\ messages' = ApplyFragment(messages, data.content)
         /\ UNCHANGED << isTyping, currentPostContent, showPostPreview >>
    ELSE UNCHANGED provider

\* the chunk of a frame applied before its type is looked at
handleWebSocketMessage_ContentFirst(data) ==
    IF Truthy(data.error)
    THEN /\ isTyping' = FALSE
         /\ UNCHANGED << messages, currentPostContent, showPostPreview >>
    ELSE IF Truthy(data.content)
    THEN /\ messages' = ApplyFragment(messages, data.content)
         /\ UNCHANGED << isTyping, currentPostContent, showPostPreview >>
    ELSE IF data.type = "complete"
    THEN /\ isTyping' = FALSE
         /\ IF data.should_post /\ Truthy(data.post_content)
            THEN /\ currentPostContent' = data.post_content
                 /\ showPostPreview' = TRUE
            ELSE UNCHANGED << currentPostContent, showPostPreview >>
         /\ UNCHANGED messages
    ELSE UNCHANGED provider

handleWebSocketMessage(data) ==
    IF Truthy(data.error)
    THEN /\ isTyping' = FALSE
         /\ UNCHANGED << messages, currentPostContent, showPostPreview >>
    ELSE IF data.type = "complete"
    THEN /\ isTyping' = FALSE
         /\ IF data.should_post /\ Truthy(data.post_content)
            THEN /\ currentPostContent' = data.post_content
                 /\ showPostPreview' = TRUE
            ELSE UNCHANGED << currentPostContent, showPostPreview >>
         /\ UNCHANGED messages
    ELSE IF Truthy(data.content)
    THEN /\ messages' = ApplyFragment(messages, data.content)
         /\ UNCHANGED << isTyping, currentPostContent, showPostPreview >>
    ELSE UNCHANGED provider

\* ws.onmessage of setupChatWebSocket for a frame of the provider's socket
WsMessage ==
    \E raw \in RawFrames :
        /\ Tick
        /\ mounted
        /\ UNCHANGED << mounted, axios, pages >>
        /\ SocketOpen
        /\ \E k \in 1..Len(wsSent) : wsSent[k].sock = websocket
        /\ nEvents' = nEvents + 1
        /\ LET parsed == JSONparse(raw)
               kind == IF parsed.ok THEN FrameKind(parsed.data) ELSE "malformed"
           IN  /\ IF parsed.ok
                  THEN handleWebSocketMessage(parsed.data)
                  ELSE UNCHANGED provider      \* onError only logs
               /\ wsAwaiting' = IF kind \in {"error", "complete"} /\ wsAwaiting > 0
                                THEN wsAwaiting - 1 ELSE wsAwaiting
               /\ inProgress' = IF kind \in {"error", "complete"} THEN {}
                                ELSE IF kind = "fragment"
                                THEN inProgress \cup { Len(messages') }
                                ELSE inProgress
               /\ exch' = IF kind = "fragment" /\ exch.completes = 0
                          THEN [exch EXCEPT !.frags = @ \o parsed.data.content]
                          ELSE IF kind = "complete" /\ exch.completes < 2
                          THEN [exch EXCEPT !.completes = @ + 1]
                          ELSE exch
               /\ lastOp' = IF kind = "complete"
                             THEN [op |-> kind, text |-> parsed.data.post_content,
                                   flag |-> parsed.data.should_post]
                             ELSE Op(kind, IF kind = "fragment"
                                           THEN parsed.data.content
                                           ELSE IF kind = "error"
                                           THEN parsed.data.error
                                           ELSE <<>>)
        /\ UNCHANGED << websocket, useWebsocket, socks, wsSent, restCalls,
                        restPending, demoted, restTurns, httpReqs >>

\* ----------------------------------------------------------- socket events
\* ws.onopen
WsOpen ==
    \E s \in DOMAIN socks :
        /\ Tick
        /\ mounted
        /\ UNCHANGED << mounted, axios, pages >>
        /\ socks[s] = "CONNECTING"
        /\ socks' = [socks EXCEPT ![s] = "OPEN"]
        /\ lastOp' = Op("wsOpen", <<>>)
        /\ UNCHANGED << provider, websocket, useWebsocket, wsSent, restCalls,
                        restPending, nEvents, wsAwaiting, inProgress, exch, demoted,
                        restTurns, httpReqs >>

\* ws.onerror followed by the close of the failed connection; onError logs
WsError ==
    \E s \in DOMAIN socks :
        /\ Tick
        /\ mounted
        /\ UNCHANGED << mounted, axios, pages >>
        /\ socks[s] \in {"CONNECTING", "OPEN"}
        /\ socks' = [socks EXCEPT ![s] = "CLOSED"]
        /\ wsAwaiting' = 0
        /\ lastOp' = Op("wsError", <<>>)
        /\ UNCHANGED << provider, websocket, useWebsocket, wsSent, restCalls,
                        restPending, nEvents, inProgress, exch, demoted,
                        restTurns, httpReqs >>

\* an onClose callback that opens a replacement socket
WsClose_Reconnect ==
    \E s \in DOMAIN socks :
        /\ Tick
        /\ mounted
        /\ UNCHANGED << mounted, axios, pages >>
        /\ socks[s] = "OPEN"
        /\ socks' = Append([socks EXCEPT ![s] = "CLOSED"], "CONNECTING")
        /\ websocket' = Len(socks) + 1
        /\ wsAwaiting' = 0
        /\ lastOp' = Op("wsClose", <<>>)
        /\ UNCHANGED << provider, useWebsocket, wsSent, restCalls,
                        restPending, nEvents, inProgress, exch, demoted,
                        restTurns, httpReqs >>

\* ws.onclose of an established connection; onClose logs
WsClose ==
    \E s \in DOMAIN socks :
        /\ Tick
        /\ mounted
        /\ UNCHANGED << mounted, axios, pages >>
        /\ socks[s] = "OPEN"
        /\ socks' = [socks EXCEPT ![s] = "CLOSED"]
        /\ wsAwaiting' = 0
        /\ lastOp' = Op("wsClose", <<>>)
        /\ UNCHANGED << provider, websocket, useWebsocket, wsSent, restCalls,
                        restPending, nEvents, inProgress, exch, demoted,
                        restTurns, httpReqs >>

\* an effect cleanup that also empties the turn list
SetUseWebsocket_DropTurns ==
    \E v \in BOOLEAN :
        /\ v # useWebsocket
        /\ Tick
        /\ mounted
        /\ UNCHANGED << mounted, axios, pages >>
        /\ useWebsocket' = v
        /\ LET closed == IF useWebsocket
                         THEN [socks EXCEPT ![Len(socks)] = "CLOSED"]
                         ELSE socks
           IN  IF v
               THEN /\ socks' = Append(closed, "CONNECTING")
                    /\ websocket' = Len(socks) + 1
               ELSE /\ socks' = closed
                    /\ websocket' = websocket
        /\ wsAwaiting' = IF useWebsocket THEN 0 ELSE wsAwaiting
        /\ messages' = IF useWebsocket THEN <<>> ELSE messages
        /\ lastOp' = Op("setUseWebsocket", <<>>)
        /\ UNCHANGED << isTyping, currentPostContent, showPostPreview, wsSent,
                        restCalls, restPending, nEvents, inProgress, exch, demoted,
                        restTurns, httpReqs >>

\* setUseWebsocket(v) of the context value: the websocket effect re-runs,
\* its cleanup closing the socket the previous run created
SetUseWebsocket ==
    \E v \in BOOLEAN :
        /\ v # useWebsocket
        /\ Tick
        /\ mounted
        /\ UNCHANGED << mounted, axios, pages >>
        /\ useWebsocket' = v
        /\ LET closed == IF useWebsocket
                         THEN [socks EXCEPT ![Len(socks)] = "CLOSED"]
                         ELSE socks
           IN  IF v
               THEN /\ socks' = Append(closed, "CONNECTING")
                    /\ websocket' = Len(socks) + 1
               ELSE /\ socks' = closed
                    /\ websocket' = websocket
        /\ wsAwaiting' = IF useWebsocket THEN 0 ELSE wsAwaiting
        /\ lastOp' = Op("setUseWebsocket", <<>>)
        /\ UNCHANGED << provider, wsSent, restCalls, restPending, nEvents,
                        inProgress, exch, demoted, restTurns, httpReqs >>

\* the effect cleanup run without closing the socket
Unmount_NoCleanup ==
    /\ Tick
    /\ mounted
    /\ mounted' = FALSE
    /\ lastOp' = Op("unmount", <<>>)
    /\ UNCHANGED << provider, websocket, useWebsocket, socks, wsAwaiting, wsSent,
                    restCalls, restPending, nEvents, inProgress, exch, demoted,
                    restTurns, httpReqs, axios, pages >>

\* the provider unmounts: the cleanup of the last effect run closes its
\* socket, and no handler changes the state of the provider afterwards
Unmount ==
    /\ Tick
    /\ mounted
    /\ mounted' = FALSE
    /\ socks' = IF useWebsocket
                THEN [socks EXCEPT ![Len(socks)] = "CLOSED"]
                ELSE socks
    /\ wsAwaiting' = IF useWebsocket THEN 0 ELSE wsAwaiting
    /\ lastOp' = Op("unmount", <<>>)
    /\ UNCHANGED << provider, websocket, useWebsocket, wsSent, restCalls,
                    restPending, nEvents, inProgress, exch, demoted, restTurns,
                    httpReqs, axios, pages >>

\* ------------------------------------------------------------ post preview
\* PostPreview onClose: setShowPostPreview(false)
ClosePreview ==
    /\ Tick
    /\ mounted
    /\ UNCHANGED << mounted, axios, pages >>
    /\ showPostPreview
    /\ showPostPreview' = FALSE
    /\ lastOp' = Op("closePreview", <<>>)
    /\ UNCHANGED << messages, isTyping, currentPostContent, websocket,
                    useWebsocket, socks, wsSent, restCalls, restPending, nEvents,
                    wsAwaiting, inProgress, exch, demoted, restTurns, httpReqs >>

\* PostPreview onPost
postToLinkedIn ==
    /\ Tick
    /\ mounted
    /\ UNCHANGED << mounted, axios, pages >>
    /\ showPostPreview
    /\ showPostPreview' = FALSE
    /\ lastOp' = Op("postToLinkedIn", <<>>)
    /\ UNCHANGED << messages, isTyping, currentPostContent, websocket,
                    useWebsocket, socks, wsSent, restCalls, restPending, nEvents,
                    wsAwaiting, inProgress, exch, demoted, restTurns, httpReqs >>

\* ------------------------------------------------- axios client of services
\* the request interceptor: the bearer header when a token is stored
requestInterceptor(config) ==
    IF Truthy(token)
    THEN [config EXCEPT !.Authorization = << "Bearer " >> \o token]
    ELSE config

\* a 401 handled without removing the token
responseError_KeepToken(status) ==
    IF status = 401
    THEN /\ location' = "/login"
         /\ UNCHANGED token
    ELSE UNCHANGED << token, location >>

\* the rejected handler of the response interceptor
responseError(status) ==
    IF status = 401
    THEN /\ token' = <<>>
         /\ location' = "/login"
    ELSE UNCHANGED << token, location >>

\* a login leaves a token in localStorage
StoreToken ==
    \E t \in TokenTexts :
        /\ Tick
        /\ token' = t
        /\ evicted' = FALSE
        /\ lastOp' = Op("storeToken", t)
        /\ UNCHANGED << chat, pages, location, axiosReqs, axiosPending >>

\* sendMessage of services/api up to its await: api.post('/chat', ...)
servicesSendMessage ==
    \E message \in InputTexts :
        /\ Tick
        /\ axiosReqs' = Append(axiosReqs,
                               requestInterceptor(
                                   [Authorization |-> <<>>,
                                    data |-> [message |-> message,
                                              chat_history |-> <<>>]]))
        /\ axiosPending' = axiosPending \cup { Len(axiosReqs) + 1 }
        /\ lastOp' = Op("axiosRequest", message)
        /\ UNCHANGED << chat, pages, token, location, evicted >>

\* a 2xx response: the fulfilled handler returns it untouched
AxiosResolve ==
    \E i \in axiosPending, status \in OkStatuses :
        /\ Tick
        /\ axiosPending' = axiosPending \ {i}
        /\ lastOp' = Op("axiosResolve", <<>>)
        /\ UNCHANGED << chat, pages, token, location, axiosReqs, evicted >>

\* an error status or no response at all: the rejected handler runs
AxiosReject ==
    \E i \in axiosPending, status \in ErrorStatuses :
        /\ Tick
        /\ axiosPending' = axiosPending \ {i}
        /\ responseError(status)
        /\ evicted' = (evicted \/ status = 401)
        /\ lastOp' = [op |-> "axiosReject", text |-> <<>>, flag |-> status = 401]
        /\ UNCHANGED << chat, pages, axiosReqs >>

NextAxios ==
    \/ StoreToken
    \/ servicesSendMessage
    \/ AxiosResolve
    \/ AxiosReject

SpecAxios == Init /\ [][NextAxios]_vars

Next ==
    \/ ChatInputSubmit
    \/ SidebarTopicClick
    \/ RestResolve
    \/ RestReject
    \/ WsMessage
    \/ WsOpen
    \/ WsError
    \/ WsClose
    \/ SetUseWebsocket
    \/ Unmount
    \/ ClosePreview
    \/ postToLinkedIn

Spec == Init /\ [][Next]_vars

\* ------------------------------------------------- ChatPage (REST only)
\* what sendMessage of services/api returns for an outcome of its api.post:
\* the response data, or an error object built in its catch block
servicesSendMessageResult(outcome) ==
    IF outcome.kind = "data"
    THEN [status |-> outcome.status, message |-> outcome.message,
          error |-> outcome.error]
    ELSE [status |-> "error", message |-> <<>>,
          error |-> IF outcome.kind = "nodata" THEN << "No response data received" >>
                    ELSE IF Truthy(outcome.error) THEN outcome.error
                    ELSE << "Failed to send message. Please try again." >>]

\* the content ChatPage gives the assistant turn
AssistantContent(response) ==
    IF response.status = "success" THEN response.message
    ELSE IF Truthy(response.error) THEN response.error
    ELSE << "An error occurred" >>

\* onChange of the TextField of ChatInterface.tsx, disabled while loading
CpType ==
    \E t \in ScreenTexts :
        /\ Tick
        /\ ~cpIsLoading
        /\ cpInput' = t
        /\ lastOp' = Op("cpType", t)
        /\ UNCHANGED << chat, axios, cpMessages, cpIsLoading, cpCalls,
                        chatInterface, generatePost, linkedInPost, cfCalls >>

\* handleSubmit of ChatInterface.tsx and handleSendMessage of ChatPage up to
\* its await
CpSubmit ==
    /\ Tick
    /\ Truthy(Trim(cpInput)) /\ ~cpIsLoading
    /\ LET message == Trim(cpInput) IN
        /\ cpInput' = <<>>
        /\ cpIsLoading' = TRUE
        /\ cpMessages' = Append(cpMessages, [role |-> "user", content |-> message])
        /\ cpCalls' = Append(cpCalls, [message |-> message, state |-> "pending",
                                       base |-> Len(cpMessages)])
        /\ lastOp' = Op("cpSubmit", message)
    /\ UNCHANGED << chat, axios, chatInterface, generatePost, linkedInPost,
                    cfCalls >>

\* sendMessage returned: the rest of handleSendMessage with its finally block
CpSettle ==
    \E i \in DOMAIN cpCalls, outcome \in SendOutcomes :
        /\ Tick
        /\ cpCalls[i].state = "pending"
        /\ LET response == servicesSendMessageResult(outcome) IN
            /\ cpMessages' = Append(cpMessages,
                                    [role |-> "assistant",
                                     content |-> AssistantContent(response)])
            /\ lastOp' = [op |-> "cpSettle", text |-> AssistantContent(response),
                          flag |-> response.status = "success"]
        /\ cpIsLoading' = FALSE
        /\ cpCalls' = [cpCalls EXCEPT ![i].state = "done"]
        /\ UNCHANGED << chat, axios, cpInput, chatInterface, generatePost,
                        linkedInPost, cfCalls >>

\* ------------------------------------------- ChatInterface.jsx (REST only)
\* chatHistory.map of fetchChatResponse of api/api
FormattedHistory(chatHistory) ==
    [i \in 1..Len(chatHistory) |->
        [role |-> IF chatHistory[i].isUser THEN "user" ELSE "assistant",
         content |-> chatHistory[i].text]]

\* onChange of the Input, disabled while loading
CiType ==
    \E t \in ScreenTexts :
        /\ Tick
        /\ ~ciIsLoading
        /\ ciInput' = t
        /\ lastOp' = Op("ciType", t)
        /\ UNCHANGED << chat, axios, chatPage, ciMessages, ciIsLoading, ciError,
                        ciCalls, ciReqs, generatePost, linkedInPost, cfCalls >>

\* handleSubmit up to its await, reached through the SendButton, which is
\* disabled while loading or with a blank input
CiSubmit ==
    /\ Tick
    /\ Truthy(Trim(ciInput)) /\ ~ciIsLoading
    /\ Truthy(Trim(ciInput))
    /\ ciIsLoading' = TRUE
    /\ ciError' = <<>>
    /\ ciMessages' = Append(ciMessages, [text |-> Trim(ciInput), isUser |-> TRUE])
    /\ ciInput' = <<>>
    /\ ciReqs' = Append(ciReqs, [message |-> Trim(ciInput),
                                 chat_history |-> FormattedHistory(ciMessages)])
    /\ ciCalls' = Append(ciCalls, [kind |-> "submit", message |-> Trim(ciInput),
                                   state |-> "pending", base |-> Len(ciMessages)])
    /\ lastOp' = Op("ciSubmit", Trim(ciInput))
    /\ UNCHANGED << chat, axios, chatPage, generatePost, linkedInPost, cfCalls >>

\* fetchChatResponse settled: the rest of handleSubmit, catch and finally
CiSubmitSettle ==
    \E i \in DOMAIN ciCalls, outcome \in FetchOutcomes :
        /\ Tick
        /\ ciCalls[i].kind = "submit" /\ ciCalls[i].state = "pending"
        /\ IF outcome.ok /\ Truthy(outcome.text)
           THEN /\ ciMessages' = Append(ciMessages,
                                        [text |-> outcome.text, isUser |-> FALSE])
                /\ UNCHANGED ciError
                /\ lastOp' = [op |-> "ciSubmitSettle", text |-> outcome.text,
                              flag |-> TRUE]
           ELSE LET message == IF outcome.ok
                               THEN << "No response received from the AI" >>
                               ELSE outcome.text
                    errorMessage == IF Truthy(message) THEN message
                                    ELSE << "Sorry, there was an error" >>
                IN  /\ ciError' = errorMessage
                    /\ ciMessages' = Append(ciMessages,
                                            [text |-> errorMessage, isUser |-> FALSE])
                    /\ lastOp' = [op |-> "ciSubmitSettle", text |-> errorMessage,
                                  flag |-> FALSE]
        /\ ciIsLoading' = FALSE
        /\ ciCalls' = [ciCalls EXCEPT ![i].state = "done"]
        /\ UNCHANGED << chat, axios, chatPage, ciInput, ciReqs, generatePost,
                        linkedInPost, cfCalls >>

\* a PostButton that stays enabled while loading
CiPost_NotDisabled ==
    \E m \in DOMAIN ciMessages :
        /\ Tick
        /\ ~ciMessages[m].isUser /\ Len(ciMessages[m].text) > 50
        /\ ciIsLoading' = TRUE
        /\ ciError' = <<>>
        /\ ciCalls' = Append(ciCalls, [kind |-> "post", message |-> ciMessages[m].text,
                                       state |-> "pending", base |-> Len(ciMessages)])
        /\ lastOp' = Op("ciPost", <<>>)
        /\ UNCHANGED << chat, axios, chatPage, ciMessages, ciInput, ciReqs,
                        generatePost, linkedInPost, cfCalls >>

\* handlePostToLinkedIn up to its await, reached through the PostButton of an
\* assistant message longer than 50 characters, disabled while loading
CiPost ==
    \E m \in DOMAIN ciMessages :
        /\ Tick
        /\ ~ciMessages[m].isUser /\ Len(ciMessages[m].text) > 50
        /\ ~ciIsLoading
        /\ ciIsLoading' = TRUE
        /\ ciError' = <<>>
        /\ ciCalls' = Append(ciCalls, [kind |-> "post", message |-> ciMessages[m].text,
                                       state |-> "pending", base |-> Len(ciMessages)])
        /\ lastOp' = Op("ciPost", <<>>)
        /\ UNCHANGED << chat, axios, chatPage, ciMessages, ciInput, ciReqs,
                        generatePost, linkedInPost, cfCalls >>

\* the post request settled: the rest of handlePostToLinkedIn
CiPostSettle ==
    \E i \in DOMAIN ciCalls, success \in BOOLEAN :
        /\ Tick
        /\ ciCalls[i].kind = "post" /\ ciCalls[i].state = "pending"
        /\ IF success
           THEN /\ ciMessages' = Append(ciMessages,
                                        [text |-> << "Y", "Successfully posted to LinkedIn!" >>,
                                         isUser |-> FALSE])
                /\ UNCHANGED ciError
           ELSE /\ ciError' = << "Failed to post to LinkedIn" >>
                /\ ciMessages' = Append(ciMessages,
                                        [text |-> << "X", "Failed to post to LinkedIn" >>,
                                         isUser |-> FALSE])
        /\ ciIsLoading' = FALSE
        /\ ciCalls' = [ciCalls EXCEPT ![i].state = "done"]
        /\ lastOp' = [op |-> "ciPostSettle", text |-> <<>>, flag |-> success]
        /\ UNCHANGED << chat, axios, chatPage, ciInput, ciReqs, generatePost,
                        linkedInPost, cfCalls >>

NextScreens ==
    \/ CpType
    \/ CpSubmit
    \/ CpSettle
    \/ CiType
    \/ CiSubmit
    \/ CiSubmitSettle
    \/ CiPost
    \/ CiPostSettle

SpecScreens == Init /\ [][NextScreens]_vars

\* ------------------------------------------------------------ GeneratePost
\* one more step of the explored run of the page
PageTick == steps < MaxPageSteps /\ steps' = steps + 1

\* prevPosts.filter(p => p.id !== id)
WithoutPost(list, id) == SelectSeq(list, LAMBDA p : p # id)

Settle(i) == [gpCalls EXCEPT ![i].state = "done"]

\* the rest of checkLinkedInConnection, issued by the mount effect
CheckSettle ==
    \E i \in DOMAIN gpCalls, connected \in BOOLEAN :
        /\ PageTick
        /\ gpCalls[i].kind = "check" /\ gpCalls[i].state = "pending"
        /\ isLinkedInConnected' = connected
        /\ gpCalls' = Settle(i)
        /\ lastOp' = [op |-> "checkSettle", text |-> <<>>, flag |-> connected]
        /\ UNCHANGED << chat, axios, chatPage, chatInterface, linkedInPost, cfCalls,
                        prompt, posts, scheduledPosts, loading, error, selectedPost,
                        scheduledTime, scheduleDialogOpen, postingStatus >>

\* the rest of loadScheduledPosts, issued by the mount effect
LoadSettle ==
    \E i \in DOMAIN gpCalls, ok \in BOOLEAN, response \in ScheduledLists :
        /\ PageTick
        /\ gpCalls[i].kind = "load" /\ gpCalls[i].state = "pending"
        /\ scheduledPosts' = IF ok THEN response ELSE scheduledPosts
        /\ gpCalls' = Settle(i)
        /\ lastOp' = [op |-> "loadSettle", text |-> <<>>, flag |-> ok]
        /\ UNCHANGED << chat, axios, chatPage, chatInterface, linkedInPost, cfCalls,
                        prompt, posts, loading, error, isLinkedInConnected,
                        selectedPost, scheduledTime, scheduleDialogOpen,
                        postingStatus >>

\* onChange of the prompt field, disabled while loading
TypePrompt ==
    \E t \in ScreenTexts :
        /\ PageTick
        /\ ~loading
        /\ prompt' = t
        /\ lastOp' = Op("typePrompt", t)
        /\ UNCHANGED << chat, axios, chatPage, chatInterface, linkedInPost, cfCalls,
                        posts, scheduledPosts, loading, error, isLinkedInConnected,
                        selectedPost, scheduledTime, scheduleDialogOpen,
                        postingStatus, gpCalls >>

\* handleGenerate up to its await, reached through the Generate button,
\* disabled while loading or with a blank prompt
handleGenerate ==
    /\ PageTick
    /\ ~loading /\ Truthy(Trim(prompt))
    /\ loading' = TRUE
    /\ error' = <<>>
    /\ gpCalls' = Append(gpCalls, [kind |-> "generate", id |-> 0, state |-> "pending"])
    /\ lastOp' = Op("handleGenerate", prompt)
    /\ UNCHANGED << chat, axios, chatPage, chatInterface, linkedInPost, cfCalls,
                    prompt, posts, scheduledPosts, isLinkedInConnected, selectedPost,
                    scheduledTime, scheduleDialogOpen, postingStatus >>

\* generatePosts settled: the rest of handleGenerate
GenerateSettle ==
    \E i \in DOMAIN gpCalls, ok \in BOOLEAN, generatedPosts \in GeneratedLists :
        /\ PageTick
        /\ gpCalls[i].kind = "generate" /\ gpCalls[i].state = "pending"
        /\ IF ok
           THEN posts' = generatedPosts /\ UNCHANGED error
           ELSE error' = << "Failed to generate posts. Please try again." >>
                /\ UNCHANGED posts
        /\ loading' = FALSE
        /\ gpCalls' = Settle(i)
        /\ lastOp' = [op |-> "generateSettle", text |-> <<>>, flag |-> ok]
        /\ UNCHANGED << chat, axios, chatPage, chatInterface, linkedInPost, cfCalls,
                        prompt, scheduledPosts, isLinkedInConnected, selectedPost,
                        scheduledTime, scheduleDialogOpen, postingStatus >>

\* handlePostNow(post) up to its await
handlePostNow ==
    \E k \in DOMAIN posts :
        /\ PageTick
        /\ IF ~isLinkedInConnected
           THEN /\ error' = << "Please connect your LinkedIn account first" >>
                /\ lastOp' = [op |-> "postNowRefused", text |-> <<>>, flag |-> FALSE]
                /\ UNCHANGED << postingStatus, gpCalls >>
           ELSE /\ postingStatus' = [postingStatus EXCEPT ![posts[k]] = "posting"]
                /\ gpCalls' = Append(gpCalls, [kind |-> "postNow", id |-> posts[k],
                                               state |-> "pending"])
                /\ lastOp' = [op |-> "handlePostNow", text |-> <<>>, flag |-> TRUE]
                /\ UNCHANGED error
        /\ UNCHANGED << chat, axios, chatPage, chatInterface, linkedInPost, cfCalls,
                        prompt, posts, scheduledPosts, loading, isLinkedInConnected,
                        selectedPost, scheduledTime, scheduleDialogOpen >>

\* the post dropped from the list whether or not the call succeeded
PostNowSettle_RemoveAlways ==
    \E i \in DOMAIN gpCalls, ok \in BOOLEAN :
        /\ PageTick
        /\ gpCalls[i].kind = "postNow" /\ gpCalls[i].state = "pending"
        /\ posts' = WithoutPost(posts, gpCalls[i].id)
        /\ error' = IF ok THEN <<>>
                    ELSE << "Failed to post to LinkedIn. Please try again." >>
        /\ postingStatus' = [postingStatus EXCEPT ![gpCalls[i].id] = "idle"]
        /\ gpCalls' = Settle(i)
        /\ lastOp' = [op |-> "postNowSettle", text |-> <<>>, flag |-> ok]
        /\ UNCHANGED << chat, axios, chatPage, chatInterface, linkedInPost, cfCalls,
                        prompt, scheduledPosts, loading, isLinkedInConnected,
                        selectedPost, scheduledTime, scheduleDialogOpen >>

\* postToLinkedIn settled: the rest of handlePostNow
PostNowSettle ==
    \E i \in DOMAIN gpCalls, ok \in BOOLEAN :
        /\ PageTick
        /\ gpCalls[i].kind = "postNow" /\ gpCalls[i].state = "pending"
        /\ IF ok
           THEN /\ posts' = WithoutPost(posts, gpCalls[i].id)
                /\ error' = <<>>
           ELSE /\ error' = << "Failed to post to LinkedIn. Please try again." >>
                /\ UNCHANGED posts
        /\ postingStatus' = [postingStatus EXCEPT ![gpCalls[i].id] = "idle"]
        /\ gpCalls' = Settle(i)
        /\ lastOp' = [op |-> "postNowSettle", text |-> <<>>, flag |-> ok]
        /\ UNCHANGED << chat, axios, chatPage, chatInterface, linkedInPost, cfCalls,
                        prompt, scheduledPosts, loading, isLinkedInConnected,
                        selectedPost, scheduledTime, scheduleDialogOpen >>

\* handleSchedule(post): opens the dialog for the post
handleSchedule ==
    \E k \in DOMAIN posts :
        /\ PageTick
        /\ selectedPost' = posts[k]
        /\ scheduledTime' = FALSE
        /\ scheduleDialogOpen' = TRUE
        /\ lastOp' = Op("handleSchedule", <<>>)
        /\ UNCHANGED << chat, axios, chatPage, chatInterface, linkedInPost, cfCalls,
                        prompt, posts, scheduledPosts, loading, error,
                        isLinkedInConnected, postingStatus, gpCalls >>

\* onChange of the DateTimePicker of the open dialog
PickTime ==
    /\ PageTick
    /\ scheduleDialogOpen /\ ~scheduledTime
    /\ scheduledTime' = TRUE
    /\ lastOp' = Op("pickTime", <<>>)
    /\ UNCHANGED << chat, axios, chatPage, chatInterface, linkedInPost, cfCalls,
                    prompt, posts, scheduledPosts, loading, error,
                    isLinkedInConnected, selectedPost, scheduleDialogOpen,
                    postingStatus, gpCalls >>

\* onClose of the dialog and its Cancel button
CloseDialog ==
    /\ PageTick
    /\ scheduleDialogOpen
    /\ scheduleDialogOpen' = FALSE
    /\ lastOp' = Op("closeDialog", <<>>)
    /\ UNCHANGED << chat, axios, chatPage, chatInterface, linkedInPost, cfCalls,
                    prompt, posts, scheduledPosts, loading, error,
                    isLinkedInConnected, selectedPost, scheduledTime,
                    postingStatus, gpCalls >>

\* handleScheduleConfirm up to its first await, reached through the Schedule
\* button of the open dialog, disabled without a time
handleScheduleConfirm ==
    /\ PageTick
    /\ scheduleDialogOpen /\ scheduledTime
    /\ selectedPost # 0 /\ scheduledTime
    /\ postingStatus' = [postingStatus EXCEPT ![selectedPost] = "scheduling"]
    /\ gpCalls' = Append(gpCalls, [kind |-> "schedule", id |-> selectedPost,
                                   state |-> "pending"])
    /\ lastOp' = Op("handleScheduleConfirm", <<>>)
    /\ UNCHANGED << chat, axios, chatPage, chatInterface, linkedInPost, cfCalls,
                    prompt, posts, scheduledPosts, loading, error,
                    isLinkedInConnected, selectedPost, scheduledTime,
                    scheduleDialogOpen >>

\* schedulePost settled: on success the post is filtered out and
\* loadScheduledPosts awaited, on failure the catch and finally blocks run
ScheduleSettle ==
    \E i \in DOMAIN gpCalls, ok \in BOOLEAN :
        /\ PageTick
        /\ gpCalls[i].kind = "schedule" /\ gpCalls[i].state = "pending"
        /\ IF ok
           THEN /\ posts' = WithoutPost(posts, gpCalls[i].id)
                /\ gpCalls' = [gpCalls EXCEPT ![i].state = "loading"]
                /\ UNCHANGED << error, postingStatus >>
           ELSE /\ error' = << "Failed to schedule post. Please try again." >>
                /\ postingStatus' = [postingStatus EXCEPT ![gpCalls[i].id] = "idle"]
                /\ gpCalls' = Settle(i)
                /\ UNCHANGED posts
        /\ lastOp' = [op |-> "scheduleSettle", text |-> <<>>, flag |-> ok]
        /\ UNCHANGED << chat, axios, chatPage, chatInterface, linkedInPost, cfCalls,
                        prompt, scheduledPosts, loading, isLinkedInConnected,
                        selectedPost, scheduledTime, scheduleDialogOpen >>

\* the loadScheduledPosts awaited by handleScheduleConfirm settled (it never
\* throws): the dialog closes and the finally block runs
ScheduleLoadSettle ==
    \E i \in DOMAIN gpCalls, ok \in BOOLEAN, response \in ScheduledLists :
        /\ PageTick
        /\ gpCalls[i].kind = "schedule" /\ gpCalls[i].state = "loading"
        /\ scheduledPosts' = IF ok THEN response ELSE scheduledPosts
        /\ scheduleDialogOpen' = FALSE
        /\ error' = <<>>
        /\ postingStatus' = [postingStatus EXCEPT ![gpCalls[i].id] = "idle"]
        /\ gpCalls' = Settle(i)
        /\ lastOp' = [op |-> "scheduleLoadSettle", text |-> <<>>, flag |-> ok]
        /\ UNCHANGED << chat, axios, chatPage, chatInterface, linkedInPost, cfCalls,
                        prompt, posts, loading, isLinkedInConnected, selectedPost,
                        scheduledTime >>

NextGenerate ==
    \/ CheckSettle
    \/ LoadSettle
    \/ TypePrompt
    \/ handleGenerate
    \/ GenerateSettle
    \/ handlePostNow
    \/ PostNowSettle
    \/ handleSchedule
    \/ PickTime
    \/ CloseDialog
    \/ handleScheduleConfirm
    \/ ScheduleSettle
    \/ ScheduleLoadSettle

SpecGenerate == Init /\ [][NextGenerate]_vars

\* ------------------------------------------------------------ LinkedInPost
\* the login handler has sent the browser to the LinkedIn login URL
Leaving == \E i \in DOMAIN lpCalls : lpCalls[i].state = "redirected"

LpSettle(i) == [lpCalls EXCEPT ![i].state = "done"]

\* the rest of checkAuthentication, issued by the mount effect
VerifySettle ==
    \E i \in DOMAIN lpCalls, outcome \in {"success", "failure", "throw"} :
        /\ Tick
        /\ ~Leaving
        /\ lpCalls[i].kind = "verify" /\ lpCalls[i].state = "pending"
        /\ lpIsAuthenticated' = (outcome = "success")
        /\ lpError' = IF outcome = "success" THEN <<>>
                      ELSE IF outcome = "failure"
                      THEN << "LinkedIn authentication required" >>
                      ELSE << "Failed to verify LinkedIn authentication" >>
        /\ lpLoading' = FALSE
        /\ lpCalls' = LpSettle(i)
        /\ lastOp' = [op |-> "verifySettle", text |-> <<>>,
                      flag |-> outcome = "success"]
        /\ UNCHANGED << chat, axios, chatPage, chatInterface, generatePost, cfCalls,
                        lpContent, lpSuccess >>

\* onChange of the textarea of the authenticated view
LpType ==
    \E t \in DraftTexts :
        /\ Tick
        /\ ~Leaving
        /\ lpIsAuthenticated
        /\ lpContent' = t
        /\ lastOp' = Op("lpType", t)
        /\ UNCHANGED << chat, axios, chatPage, chatInterface, generatePost, cfCalls,
                        lpLoading, lpError, lpSuccess, lpIsAuthenticated, lpCalls >>

\* handlePost up to its await, reached through the Post button of the
\* authenticated view, disabled while loading
handlePost ==
    /\ Tick
    /\ ~Leaving
    /\ lpIsAuthenticated /\ ~lpLoading
    /\ IF ~Truthy(lpContent)
       THEN /\ lpError' = << "Please enter some content for your post" >>
            /\ lastOp' = Op("handlePostEmpty", <<>>)
            /\ UNCHANGED << lpLoading, lpSuccess, lpCalls >>
       ELSE /\ lpLoading' = TRUE
            /\ lpError' = <<>>
            /\ lpSuccess' = <<>>
            /\ lpCalls' = Append(lpCalls, [kind |-> "post", content |-> lpContent,
                                           state |-> "pending"])
            /\ lastOp' = Op("handlePost", lpContent)
    /\ UNCHANGED << chat, axios, chatPage, chatInterface, generatePost, cfCalls,
                    lpContent, lpIsAuthenticated >>

\* the needs_auth return leaving without the finally block
PostSettle_NeedsAuthSkipsFinally ==
    \E i \in DOMAIN lpCalls, outcome \in PostOutcomes :
        /\ Tick
        /\ ~Leaving
        /\ lpCalls[i].kind = "post" /\ lpCalls[i].state = "pending"
        /\ IF outcome.kind = "ok"
           THEN /\ lpSuccess' = << "Post successfully published to LinkedIn!" >>
                /\ lpContent' = <<>>
                /\ UNCHANGED << lpError, lpIsAuthenticated >>
           ELSE IF outcome.kind = "needs_auth"
           THEN /\ lpIsAuthenticated' = FALSE
                /\ lpError' = << "LinkedIn authentication required. Please login first." >>
                /\ UNCHANGED << lpSuccess, lpContent >>
           ELSE /\ lpError' = IF Truthy(outcome.error) THEN outcome.error
                              ELSE << "Failed to post to LinkedIn" >>
                /\ UNCHANGED << lpSuccess, lpContent, lpIsAuthenticated >>
        /\ lpLoading' = IF outcome.kind = "needs_auth" THEN lpLoading ELSE FALSE
        /\ lpCalls' = LpSettle(i)
        /\ lastOp' = [op |-> "postSettle", text |-> << outcome.kind >>,
                      flag |-> outcome.kind = "ok"]
        /\ UNCHANGED << chat, axios, chatPage, chatInterface, generatePost, cfCalls >>

\* the fetch of handlePost settled: the rest of the handler, its catch and
\* finally blocks
PostSettle ==
    \E i \in DOMAIN lpCalls, outcome \in PostOutcomes :
        /\ Tick
        /\ ~Leaving
        /\ lpCalls[i].kind = "post" /\ lpCalls[i].state = "pending"
        /\ IF outcome.kind = "ok"
           THEN /\ lpSuccess' = << "Post successfully published to LinkedIn!" >>
                /\ lpContent' = <<>>
                /\ UNCHANGED << lpError, lpIsAuthenticated >>
           ELSE IF outcome.kind = "needs_auth"
           THEN /\ lpIsAuthenticated' = FALSE
                /\ lpError' = << "LinkedIn authentication required. Please login first." >>
                /\ UNCHANGED << lpSuccess, lpContent >>
           ELSE /\ lpError' = IF Truthy(outcome.error) THEN outcome.error
                              ELSE << "Failed to post to LinkedIn" >>
                /\ UNCHANGED << lpSuccess, lpContent, lpIsAuthenticated >>
        /\ lpLoading' = FALSE
        /\ lpCalls' = LpSettle(i)
        /\ lastOp' = [op |-> "postSettle", text |-> << outcome.kind >>,
                      flag |-> outcome.kind = "ok"]
        /\ UNCHANGED << chat, axios, chatPage, chatInterface, generatePost, cfCalls >>

\* handleLinkedInLogin up to its await, reached through the Connect button
\* or the Reconnect button, neither of which is ever disabled
handleLinkedInLogin ==
    /\ Tick
    /\ ~Leaving
    /\ lpLoading' = TRUE
    /\ lpError' = <<>>
    /\ lpCalls' = Append(lpCalls, [kind |-> "login", content |-> <<>>,
                                   state |-> "pending"])
    /\ lastOp' = Op("handleLinkedInLogin", <<>>)
    /\ UNCHANGED << chat, axios, chatPage, chatInterface, generatePost, cfCalls,
                    lpContent, lpSuccess, lpIsAuthenticated >>

\* the login fetch settled: a URL to go to, a reply without one, or a failure
LoginSettle ==
    \E i \in DOMAIN lpCalls, outcome \in {"url", "nourl", "throw"} :
        /\ Tick
        /\ ~Leaving
        /\ lpCalls[i].kind = "login" /\ lpCalls[i].state = "pending"
        /\ lpError' = IF outcome = "url" THEN lpError
                      ELSE IF outcome = "nourl"
                      THEN << "Failed to get LinkedIn login URL" >>
                      ELSE << "Failed to initiate LinkedIn login" >>
        /\ lpLoading' = FALSE
        /\ lpCalls' = [lpCalls EXCEPT ![i].state =
                          IF outcome = "url" THEN "redirected" ELSE "done"]
        /\ lastOp' = [op |-> "loginSettle", text |-> << outcome >>,
                      flag |-> outcome = "url"]
        /\ UNCHANGED << chat, axios, chatPage, chatInterface, generatePost, cfCalls,
                        lpContent, lpSuccess, lpIsAuthenticated >>

NextLinkedIn ==
    \/ VerifySettle
    \/ LpType
    \/ handlePost
    \/ PostSettle
    \/ handleLinkedInLogin
    \/ LoginSettle

SpecLinkedIn == Init /\ [][NextLinkedIn]_vars

\* ------------------------------------------------- axios client of api/config
\* a request made with the client: the request interceptor starts its probe
apiRequest ==
    /\ Tick
    /\ cfCalls' = Append(cfCalls, [probe |-> "pending", dispatched |-> FALSE,
                                   outcome |-> "pending", message |-> <<>>])
    /\ lastOp' = Op("apiRequest", <<>>)
    /\ UNCHANGED << chat, axios, chatPage, chatInterface, generatePost,
                    linkedInPost >>

\* a request interceptor that returns the config whatever the probe did
ProbeSettle_DispatchAnyway ==
    \E i \in DOMAIN cfCalls, ok \in BOOLEAN :
        /\ Tick
        /\ cfCalls[i].probe = "pending"
        /\ cfCalls' = [cfCalls EXCEPT ![i].probe = IF ok THEN "ok" ELSE "failed",
                                      ![i].dispatched = TRUE]
        /\ lastOp' = [op |-> "probeSettle", text |-> <<>>, flag |-> ok]
        /\ UNCHANGED << chat, axios, chatPage, chatInterface, generatePost,
                        linkedInPost >>

\* GET /test settled: the request interceptor returns the config, which is
\* then dispatched, or throws, which the rejected handler of the response
\* interceptor turns into a connection error
ProbeSettle ==
    \E i \in DOMAIN cfCalls, ok \in BOOLEAN :
        /\ Tick
        /\ cfCalls[i].probe = "pending"
        /\ cfCalls' = IF ok
                      THEN [cfCalls EXCEPT ![i].probe = "ok", ![i].dispatched = TRUE]
                      ELSE [cfCalls EXCEPT ![i].probe = "failed",
                                           ![i].outcome = "rejected",
                                           ![i].message =
                                               << "Could not connect to the server" >>]
        /\ lastOp' = [op |-> "probeSettle", text |-> <<>>, flag |-> ok]
        /\ UNCHANGED << chat, axios, chatPage, chatInterface, generatePost,
                        linkedInPost >>

\* a dispatched request settled: the response interceptor passes a response
\* on, rejects with a connection error when there is none, and rejects with
\* the error of an error status
ResponseSettle ==
    \E i \in DOMAIN cfCalls, status \in OkStatuses \cup ErrorStatuses :
        /\ Tick
        /\ cfCalls[i].dispatched /\ cfCalls[i].outcome = "pending"
        /\ cfCalls' = IF status \in OkStatuses
                      THEN [cfCalls EXCEPT ![i].outcome = "resolved"]
                      ELSE [cfCalls EXCEPT ![i].outcome = "rejected",
                                           ![i].message =
                                               IF status = 0
                                               THEN << "Could not connect to the server" >>
                                               ELSE << "Request failed with status" >>]
        /\ lastOp' = [op |-> "responseSettle", text |-> <<>>,
                      flag |-> status \in OkStatuses]
        /\ UNCHANGED << chat, axios, chatPage, chatInterface, generatePost,
                        linkedInPost >>

NextConfig ==
    \/ apiRequest
    \/ ProbeSettle
    \/ ResponseSettle

SpecConfig == Init /\ [][NextConfig]_vars

TypeOK ==
    /\ isTyping \in BOOLEAN
    /\ showPostPreview \in BOOLEAN
    /\ useWebsocket \in BOOLEAN
    /\ websocket \in 0..Len(socks)
    /\ \A s \in DOMAIN socks : socks[s] \in {"CONNECTING", "OPEN", "CLOSED"}
    /\ \A i \in DOMAIN messages : messages[i].role \in {"user", "assistant"}
    /\ restPending \subseteq DOMAIN restCalls
    /\ mounted \in BOOLEAN

\* ------------------------------------------------------------------- claims
SendOps == {"sendREST", "sendWS"}

LastTurn(msgs) == msgs[Len(msgs)]

\* C1: when the first complete event after a user turn arrives, and only
\* stream events were applied since that user turn, the turn list is the list
\* up to the user turn followed by exactly one assistant turn whose content is
\* the chunks in arrival order (no assistant turn when no chunk carried text).
C1_FragmentsConcatenate ==
    (lastOp.op = "complete" /\ exch.completes = 1 /\ exch.user > 0 /\ exch.clean)
        => IF exch.frags = <<>>
           THEN /\ Len(messages) = exch.user
                /\ LastTurn(messages).role = "user"
           ELSE /\ Len(messages) = exch.user + 1
                /\ messages[exch.user].role = "user"
                /\ LastTurn(messages).role = "assistant"
                /\ LastTurn(messages).content = exch.frags

\* two different chunks, then complete
C1_Witness ==
    /\ lastOp.op = "complete" /\ exch.completes = 1 /\ exch.user > 0 /\ exch.clean
    /\ exch.frags = <<"a", "b">>
    /\ LastTurn(messages).content = <<"a", "b">>

\* C2: a step taken while isTyping is true never appends a user turn and never
\* issues a REST call or a socket write.
C2_SendWhileTypingRejected ==
    [][isTyping =>
          /\ restCalls' = restCalls
          /\ wsSent' = wsSent
          /\ ~(Len(messages') = Len(messages) + 1
                 /\ LastTurn(messages').role = "user")]_vars

\* C3: applying an error event leaves isTyping false and the turn list one
\* turn longer, the new last turn being an assistant turn holding the error
\* message.
C3_ErrorAppendsTurn ==
    [][lastOp'.op = "error" =>
          /\ isTyping' = FALSE
          /\ Len(messages') = Len(messages) + 1
          /\ LastTurn(messages').role = "assistant"
          /\ LastTurn(messages').content = lastOp'.text]_vars

\* C4: a chunk applied after a complete event and before the next user turn
\* leaves the turn list as it was.
C4_StragglerDropped ==
    [][(lastOp'.op = "fragment" /\ exch.completes > 0) => messages' = messages]_vars

\* C5: at most one turn is being streamed, and isTyping is true exactly when a
\* turn is being streamed or a REST call or a socket exchange is outstanding.
C5_TypingIffOutstanding ==
    /\ Cardinality(inProgress) <= 1
    /\ isTyping <=> (inProgress # {} \/ restPending # {} \/ wsAwaiting > 0)

\* C6: once the provider's socket has failed or closed with no frame ever
\* received, the first send of the session has been carried by exactly one
\* fetchChatResponse call, with the text of the first user turn and the empty
\* history that preceded it.
C6_FirstSendDemoted ==
    (useWebsocket /\ ReadyState = "CLOSED" /\ nEvents = 0 /\ messages # <<>>) =>
        Cardinality({ i \in DOMAIN restCalls :
                        /\ restCalls[i].message = messages[1].content
                        /\ restCalls[i].chatHistory = <<>> }) = 1

\* the part of the fallback the code does implement: a send issued while the
\* provider's socket is not OPEN (failed, closed or still connecting) writes
\* nothing to the socket and issues exactly one fetchChatResponse call, carrying
\* the text of the appended user turn and the role and content of every turn
\* that preceded it.
SendWhileNotOpenUsesRest ==
    [][(lastOp'.op \in SendOps /\ ReadyState # "OPEN") =>
          /\ wsSent' = wsSent
          /\ Len(restCalls') = Len(restCalls) + 1
          /\ SubSeq(restCalls', 1, Len(restCalls)) = restCalls
          /\ restPending' = restPending \cup { Len(restCalls') }
          /\ Len(messages') = Len(messages) + 1
          /\ LastTurn(messages').role = "user"
          /\ LastTurn(restCalls').message = LastTurn(messages').content
          /\ LastTurn(restCalls').chatHistory =
                 [i \in 1..Len(messages) |->
                     [role |-> messages[i].role, content |-> messages[i].content]]
      ]_vars

\* C7: once a send has fallen back from the socket to REST, nothing is written
\* to a socket any more.
C7_NoStreamAfterDemotion ==
    [][demoted => wsSent' = wsSent]_vars

\* C8: a failed REST call leaves isTyping false and appends an assistant turn
\* with a non-empty error text.
C8_RestFailureSurfaced ==
    [][lastOp'.op = "restFail" =>
          /\ isTyping' = FALSE
          /\ Len(messages') = Len(messages) + 1
          /\ LastTurn(messages').role = "assistant"
          /\ Truthy(LastTurn(messages').content)]_vars

\* C9: a frame that is not JSON ends the exchange as an error event does:
\* isTyping is false afterwards.
C9_MalformedEndsExchange ==
    [][lastOp'.op = "malformed" => isTyping' = FALSE]_vars

\* C10: isTyping does not stay true once nothing can reset it: when no REST
\* call is pending and no socket exchange can still be answered (the socket
\* closed or errored, or every write was answered), isTyping is false.
C10_TypingResetAfterError ==
    (restPending = {} /\ wsAwaiting = 0) => ~isTyping

\* C11: applying a complete event leaves isTyping false; when should_post is
\* set it stores post_content in currentPostContent and raises
\* showPostPreview, whatever post_content is; when should_post is not set
\* currentPostContent is unchanged.
C11_CompleteAlwaysOffers ==
    [][lastOp'.op = "complete" =>
          /\ isTyping' = FALSE
          /\ lastOp'.flag =>
                 (currentPostContent' = lastOp'.text /\ showPostPreview' = TRUE)
          /\ ~lastOp'.flag => currentPostContent' = currentPostContent]_vars

\* C11 (amended): applying a complete event leaves isTyping false; when
\* should_post is set and post_content is non-empty it stores post_content and
\* raises showPostPreview; otherwise currentPostContent and showPostPreview are
\* unchanged.
C11_CompleteOffersNonEmpty ==
    [][lastOp'.op = "complete" =>
          /\ isTyping' = FALSE
          /\ IF lastOp'.flag /\ Truthy(lastOp'.text)
             THEN currentPostContent' = lastOp'.text /\ showPostPreview' = TRUE
             ELSE UNCHANGED << currentPostContent, showPostPreview >>]_vars

\* a complete event with should_post and a non-empty post_content was applied
C11_Witness ==
    /\ lastOp.op = "complete" /\ lastOp.flag /\ lastOp.text = <<"p">>
    /\ currentPostContent = <<"p">> /\ showPostPreview /\ ~isTyping

\* C12: from an empty conversation, one send written to the open socket, then
\* chunks, then the first complete event with should_post and a non-empty
\* post_content, end with exactly two turns, the user turn of the send and one
\* assistant turn holding the chunks in order, with isTyping false and
\* currentPostContent equal to post_content.
C12_StreamScenario ==
    ( /\ lastOp.op = "complete" /\ lastOp.flag /\ Truthy(lastOp.text)
      /\ exch.user = 1 /\ exch.completes = 1 /\ exch.frags # <<>>
      /\ Len(wsSent) = 1 /\ restCalls = <<>> )
        => /\ Len(messages) = 2
           /\ messages[1].role = "user"
           /\ messages[1].content = wsSent[1].frame.message
           /\ messages[2].role = "assistant"
           /\ messages[2].content = exch.frags
           /\ ~isTyping
           /\ currentPostContent = lastOp.text

\* send, chunk a, chunk b, complete{should_post, p}
C12_Witness ==
    /\ lastOp.op = "complete" /\ lastOp.flag /\ lastOp.text = <<"p">>
    /\ exch.user = 1 /\ exch.completes = 1 /\ exch.frags = <<"a", "b">>
    /\ Len(wsSent) = 1 /\ restCalls = <<>>
    /\ Len(messages) = 2 /\ currentPostContent = <<"p">>

\* C13: a user turn, and an assistant turn appended from a REST reply, is never
\* changed or removed by a later step.
C13_FinalizedTurnsImmutable ==
    [][\A i \in DOMAIN messages :
          (messages[i].role = "user" \/ i \in restTurns) =>
              (i \in DOMAIN messages' /\ messages'[i] = messages[i])]_vars

\* C14: no step removes a turn, reorders turns or changes a turn other than
\* the last one: the next turn list either keeps every turn and appends, or
\* has the same length and differs at most in its last turn.
C14_AppendOnlyButLast ==
    [][\/ /\ Len(messages') > Len(messages)
          /\ SubSeq(messages', 1, Len(messages)) = messages
       \/ /\ Len(messages') = Len(messages)
          /\ \A i \in 1..(Len(messages) - 1) : messages'[i] = messages[i]]_vars

\* a chunk has been appended to the trailing turn of a list of several turns
C14_Witness ==
    /\ lastOp.op = "fragment"
    /\ Len(messages) >= 3
    /\ LastTurn(messages).role = "assistant"
    /\ Len(LastTurn(messages).content) >= 2

\* C15: a socket is created only by the effect run that follows a call of
\* setUseWebsocket(true); an error or a close of the socket never creates one.
C15_NoAutoReconnect ==
    [][Len(socks') > Len(socks) => (~useWebsocket /\ useWebsocket')]_vars

\* the only socket of the session has closed and a later send went by REST
C15_Witness ==
    /\ socks = << "CLOSED" >>
    /\ useWebsocket
    /\ lastOp.op = "sendREST"
    /\ Len(wsSent) = 1

\* C16: every call of fetchChatResponse has issued exactly one request,
\* whether it is pending, resolved or failed, and a failure issues none.
C16_OneRequestPerCall ==
    /\ \A i \in DOMAIN restCalls :
          Cardinality({ k \in DOMAIN httpReqs : httpReqs[k].call = i }) = 1
    /\ lastOp.op = "restFail" => Len(httpReqs) = Len(restCalls)

\* a call has failed and its one request is the only one issued
C16_Witness ==
    /\ lastOp.op = "restFail"
    /\ Len(restCalls) = 1
    /\ restPending = {}
    /\ Len(httpReqs) = 1

\* C17: a step in which a socket becomes CLOSED (the effect cleanup calling
\* ws.close(), or the connection ending) leaves the turn list and
\* currentPostContent as they were.
C17_CloseKeepsTurns ==
    [][(\E s \in DOMAIN socks : socks[s] # "CLOSED" /\ socks'[s] = "CLOSED")
          => UNCHANGED << messages, currentPostContent >>]_vars

\* the cleanup closed the socket between chunks of a reply, which is still
\* the trailing turn
C17_Witness ==
    /\ lastOp.op = "setUseWebsocket"
    /\ ~useWebsocket
    /\ socks[websocket] = "CLOSED"
    /\ exch.completes = 0
    /\ Len(exch.frags) >= 2
    /\ LastTurn(messages).content = exch.frags

\* C18: the body of every chat request sent over HTTP has exactly the fields
\* message and chat_history, message being the text of the call and
\* chat_history the turns before it.
C18_RestBodyShape ==
    \A k \in DOMAIN httpReqs :
        /\ DOMAIN httpReqs[k].body = { "message", "chat_history" }
        /\ httpReqs[k].body.message = restCalls[httpReqs[k].call].message
        /\ httpReqs[k].body.chat_history = restCalls[httpReqs[k].call].chatHistory

\* C20: a call of sendMessage appends one user turn carrying its text and
\* uses one transport: one frame written to the socket when useWebsocket is
\* set and the socket is OPEN, one fetchChatResponse call otherwise.
C20_OneTurnOneTransport ==
    [][lastOp'.op \in SendOps =>
          /\ messages' = Append(messages, UserTurn(lastOp'.text))
          /\ IF useWebsocket /\ websocket # 0 /\ ReadyState = "OPEN"
             THEN /\ Len(wsSent') = Len(wsSent) + 1
                  /\ wsSent'[Len(wsSent')].frame.message = lastOp'.text
                  /\ UNCHANGED << restCalls, httpReqs >>
             ELSE /\ Len(restCalls') = Len(restCalls) + 1
                  /\ restCalls'[Len(restCalls')].message = lastOp'.text
                  /\ Len(httpReqs') = Len(httpReqs) + 1
                  /\ UNCHANGED wsSent]_vars

\* one send has gone by each transport
C20_Witness ==
    /\ lastOp.op \in SendOps
    /\ Len(wsSent) = 1
    /\ Len(restCalls) = 1
    /\ Len(messages) >= 2

\* C19: a request of the axios client carries the bearer header of the
\* stored token exactly when a token is stored as it is sent; a 401 response
\* removes the token, and every request sent after a 401 and before the next
\* store of a token has no Authorization header.
C19_BearerIffToken ==
    [][/\ Len(axiosReqs') > Len(axiosReqs) =>
            LET sent == axiosReqs'[Len(axiosReqs')] IN
            /\ (sent.Authorization # <<>>) <=> (token # <<>>)
            /\ token # <<>> => sent.Authorization = << "Bearer " >> \o token
            /\ evicted => sent.Authorization = <<>>
       /\ (lastOp'.op = "axiosReject" /\ lastOp'.flag) => token' = <<>>]_vars

\* a request sent with the header, a 401, then a request sent without it
C19_Witness ==
    /\ lastOp.op = "axiosRequest"
    /\ evicted
    /\ Len(axiosReqs) = 2
    /\ axiosReqs[1].Authorization = << "Bearer ", "k" >>
    /\ axiosReqs[2].Authorization = <<>>

\* C21: whenever showPostPreview is set, currentPostContent holds a non-empty
\* post content.
C21_PreviewHasContent ==
    showPostPreview => Truthy(currentPostContent)

\* the preview is showing an earlier post when a complete event arrives that
\* asks for posting without content
C21_Witness ==
    /\ lastOp.op = "complete"
    /\ lastOp.flag
    /\ lastOp.text = <<>>
    /\ showPostPreview
    /\ currentPostContent = <<"p">>

\* C22: a step that applies a complete event leaves the turn list as it was.
C22_CompleteKeepsTurns ==
    [][lastOp'.op = "complete" => messages' = messages]_vars

\* a second complete event in a row, applied to a list holding a reply
C22_Witness ==
    /\ lastOp.op = "complete"
    /\ exch.completes = 2
    /\ Len(messages) >= 2
    /\ LastTurn(messages).role = "assistant"

\* C26: at most one socket created by the provider is not closed, and none
\* is once the provider has unmounted.
C26_OneLiveSocket ==
    /\ Cardinality({ s \in DOMAIN socks : socks[s] # "CLOSED" }) <= 1
    /\ ~mounted => \A s \in DOMAIN socks : socks[s] = "CLOSED"

\* the provider unmounted holding the open socket of a second effect run
C26_Witness ==
    /\ ~mounted
    /\ lastOp.op = "unmount"
    /\ useWebsocket
    /\ Len(socks) = 2
    /\ Len(wsSent) >= 1

\* C23: the step that finishes an accepted submit of a REST-only chat screen
\* leaves the turn list as it was at the submit plus exactly two turns, the
\* user's message and then one assistant message (the reply, or a non-empty
\* error text when the request failed), and leaves the loading flag false.
C23_SubmitAppendsTwo ==
    [][/\ \A i \in DOMAIN cpCalls :
             (cpCalls[i].state = "pending" /\ cpCalls'[i].state = "done") =>
                 /\ Len(cpMessages') = cpCalls[i].base + 2
                 /\ SubSeq(cpMessages', 1, Len(cpMessages)) = cpMessages
                 /\ cpMessages'[cpCalls[i].base + 1] =
                        [role |-> "user", content |-> cpCalls[i].message]
                 /\ cpMessages'[cpCalls[i].base + 2].role = "assistant"
                 /\ ~lastOp'.flag => Truthy(cpMessages'[cpCalls[i].base + 2].content)
                 /\ cpIsLoading' = FALSE
       /\ \A i \in DOMAIN ciCalls :
             (ciCalls[i].kind = "submit" /\ ciCalls[i].state = "pending"
                 /\ ciCalls'[i].state = "done") =>
                 /\ Len(ciMessages') = ciCalls[i].base + 2
                 /\ SubSeq(ciMessages', 1, Len(ciMessages)) = ciMessages
                 /\ ciMessages'[ciCalls[i].base + 1] =
                        [text |-> ciCalls[i].message, isUser |-> TRUE]
                 /\ ciMessages'[ciCalls[i].base + 2].isUser = FALSE
                 /\ Truthy(ciMessages'[ciCalls[i].base + 2].text)
                 /\ ciIsLoading' = FALSE]_vars

\* a failed submit has finished on each of the two screens
C23_Witness ==
    /\ Len(cpCalls) = 1 /\ cpCalls[1].state = "done"
    /\ Len(cpMessages) = 2 /\ cpMessages[2].content = <<"e">>
    /\ Len(ciCalls) = 1 /\ ciCalls[1].state = "done"
    /\ Len(ciMessages) = 3 /\ ciMessages[3].text = <<"e">>
    /\ ~cpIsLoading /\ ~ciIsLoading

\* a postToLinkedIn or schedulePost call of the page
PostingCalls == { i \in DOMAIN gpCalls : gpCalls[i].kind \in {"postNow", "schedule"} }

\* C24: handlePostNow and handleScheduleConfirm take a post out of the list
\* only in the step in which their call for that post resolves, and then take
\* out that post alone; the step in which the call fails leaves the list as
\* it was; the step that finishes either handler leaves postingStatus of the
\* post at idle; handlePostNow without a LinkedIn connection issues no call.
C24_RemovedOnlyOnSuccess ==
    [][/\ \A i \in PostingCalls :
             /\ (gpCalls[i].state = "pending" /\ gpCalls'[i].state # "pending") =>
                   posts' = IF lastOp'.flag THEN WithoutPost(posts, gpCalls[i].id)
                            ELSE posts
             /\ (gpCalls[i].state # "done" /\ gpCalls'[i].state = "done") =>
                   postingStatus'[gpCalls[i].id] = "idle"
       /\ (lastOp'.op # "generateSettle"
             /\ \E k \in DOMAIN posts : \A j \in DOMAIN posts' : posts'[j] # posts[k]) =>
             \E i \in PostingCalls :
                 /\ gpCalls[i].state = "pending" /\ gpCalls'[i].state # "pending"
                 /\ lastOp'.flag
                 /\ posts' = WithoutPost(posts, gpCalls[i].id)
       /\ lastOp'.op = "postNowRefused" =>
             /\ ~isLinkedInConnected
             /\ UNCHANGED << gpCalls, posts, postingStatus >>]_vars

\* post 1 was posted and left the list; the scheduling of post 2 failed and
\* left it in the list; both ended idle
C24_Witness ==
    /\ posts = << 2 >>
    /\ postingStatus[1] = "idle"
    /\ postingStatus[2] = "idle"
    /\ lastOp.op = "scheduleSettle" /\ ~lastOp.flag
    /\ \E i \in PostingCalls : gpCalls[i].kind = "postNow" /\ gpCalls[i].state = "done"

\* C25: handlePost with an empty draft sends nothing and changes the error
\* alone; the step that finishes a handlePost that sent its request leaves
\* loading false, and clears the draft when the post succeeded and leaves it
\* as it was otherwise.
C25_PostHandler ==
    [][/\ lastOp'.op = "handlePostEmpty" =>
             /\ Truthy(lpError')
             /\ UNCHANGED << lpCalls, lpContent, lpLoading, lpSuccess,
                             lpIsAuthenticated >>
       /\ \A i \in DOMAIN lpCalls :
             (lpCalls[i].kind = "post" /\ lpCalls[i].state = "pending"
                 /\ lpCalls'[i].state = "done") =>
                 /\ lpLoading' = FALSE
                 /\ lpContent' = IF lastOp'.flag THEN <<>> ELSE lpContent]_vars

\* a post answered with needs_auth has finished: not loading, draft kept
C25_Witness ==
    /\ lastOp.op = "postSettle"
    /\ lastOp.text = << "needs_auth" >>
    /\ ~lpLoading
    /\ ~lpIsAuthenticated
    /\ lpContent = <<"c">>

\* C27: a request of the api/config client has been dispatched only if its
\* own probe succeeded, and becomes dispatched only in the step in which that
\* probe succeeds; a request whose probe failed is rejected and is not
\* dispatched.
C27_DispatchAfterProbe ==
    [][\A i \in DOMAIN cfCalls' :
          /\ cfCalls'[i].dispatched => cfCalls'[i].probe = "ok"
          /\ cfCalls'[i].probe = "failed" =>
                (~cfCalls'[i].dispatched /\ cfCalls'[i].outcome = "rejected")
          /\ (i \in DOMAIN cfCalls /\ ~cfCalls[i].dispatched /\ cfCalls'[i].dispatched) =>
                (cfCalls[i].probe = "pending" /\ lastOp'.op = "probeSettle"
                    /\ lastOp'.flag)]_vars

\* one request was rejected on its failed probe, another was dispatched after
\* its probe and answered
C27_Witness ==
    /\ Len(cfCalls) = 2
    /\ cfCalls[1].probe = "failed" /\ cfCalls[1].outcome = "rejected"
    /\ cfCalls[2].probe = "ok" /\ cfCalls[2].dispatched
    /\ cfCalls[2].outcome = "resolved"

====
